---------------------------- MODULE Spec2Model ----------------------------
(***************************************************************************)
(* Credential primitives of geometry-deez: the field parsers of            *)
(* src/src/user.rs (Name, Password, Email, SocialMediaHandles) and the     *)
(* GJP2 derivation and verification of src/src/gjp2.rs.                    *)
(*                                                                         *)
(* A Rust char is a one-character TLA+ string, or the name of its code     *)
(* point ("U+00E9").  A Rust String / &str is the sequence of              *)
(* its chars; its len() is the number of UTF-8 bytes, and a slice s[a..b]  *)
(* is taken by byte offsets and panics off a char boundary.                *)
(***************************************************************************)
EXTENDS Integers, Sequences, FiniteSets, TLC

VARIABLES
    field,      \* parser under test: "Name", "Password" or "Email"
    input,      \* the raw &str handed to the parser
    pc,         \* position of the caller
    result,     \* what F::parse(input) returned
    reparsed,   \* what F::parse(v.as_str()) returned for result = Ok(v)
    handles,    \* a SocialMediaHandles value
    raw,        \* per handle, the raw string most recently supplied for it
    lastOp,     \* the SocialMediaHandles method called last
    ret,        \* what that method returned
    digest,     \* Gjp2Generator.digest: the bytes the Sha1 has absorbed
    calls,      \* generate_gjp2 calls made on the generator
    password,   \* the Password of the last generate_gjp2 call
    sha1_hash,  \* the digest that call handed to bcrypt::hash
    generated,  \* what that call returned
    candidate,  \* the text of the last verify_gjp2 call
    verified    \* what that call returned

vars == <<field, input, pc, result, reparsed, handles, raw, lastOp, ret,
          digest, calls, password, sha1_hash, generated, candidate, verified>>

parseVars == <<field, input, pc, result, reparsed>>
handleVars == <<handles, raw, lastOp, ret>>
gjp2Vars == <<digest, calls, password, sha1_hash, generated, candidate, verified>>

(***************************************************************************)
(* Bounds of the model.                                                    *)
(***************************************************************************)
\* Raw inputs of at most MaxLen chars are enumerated exhaustively, beside
\* those of the source's tests.
MaxLen == 5
\* Long inputs are a run of one char inserted into a string of at most
\* MaxTail chars.
MaxTail == 3
\* Raw social media handles, beside those of the source's test, have at
\* most MaxHandleLen chars.
MaxHandleLen == 1
\* generate_gjp2 is called at most MaxCalls times on one generator.
MaxCalls == 3
\* Passwords handed to GJP2 end in at most MaxPwTail free chars.
MaxPwTail == 2
\* bcrypt::hash draws its salt from 1..NumSalts.
NumSalts == 2

(***************************************************************************)
(* Chars.                                                                  *)
(***************************************************************************)
AsciiUppercase ==
    {"A", "B", "C", "D", "E", "F", "G", "H", "I", "J", "K", "L", "M",
     "N", "O", "P", "Q", "R", "S", "T", "U", "V", "W", "X", "Y", "Z"}

AsciiLowercase ==
    {"a", "b", "c", "d", "e", "f", "g", "h", "i", "j", "k", "l", "m",
     "n", "o", "p", "q", "r", "s", "t", "u", "v", "w", "x", "y", "z"}

\* char::is_ascii_digit
AsciiDigit == {"0", "1", "2", "3", "4", "5", "6", "7", "8", "9"}

\* char::is_ascii_alphabetic
AsciiAlphabetic == AsciiUppercase \cup AsciiLowercase

\* char::is_alphanumeric: the Unicode class, which also holds U+00E9.
UnicodeAlphanumeric == AsciiAlphabetic \cup AsciiDigit \cup {"U+00E9"}

\* char::is_ascii_alphanumeric
AsciiAlphanumeric == AsciiAlphabetic \cup AsciiDigit

\* char::len_utf8: U+00E9 and U+00F7 take two bytes; every other char of
\* the model is ASCII and takes one.
len_utf8(ch) == IF ch \in {"U+00E9", "U+00F7"} THEN 2 ELSE 1

(***************************************************************************)
(* Strings, by bytes.                                                      *)
(***************************************************************************)
RECURSIVE byte_len(_)
\* str::len
byte_len(s) == IF s = <<>> THEN 0 ELSE len_utf8(Head(s)) + byte_len(Tail(s))

RECURSIVE char_index(_, _, _, _)
\* The number of chars of s before byte offset b, counting on from k chars
\* at offset off; -1 when b is past the end or inside a char.
char_index(s, k, off, b) ==
    IF off = b THEN k
    ELSE IF off > b \/ k >= Len(s) THEN -1
    ELSE char_index(s, k + 1, off + len_utf8(s[k + 1]), b)

\* &s[lo..hi]: ok = FALSE is the panic of a slice out of range or off a
\* char boundary.
slice(s, lo, hi) ==
    LET a == char_index(s, 0, 0, lo)
        b == char_index(s, 0, 0, hi)
    IN  IF lo <= hi /\ a >= 0 /\ b >= 0
        THEN [ok |-> TRUE, val |-> SubSeq(s, a + 1, b)]
        ELSE [ok |-> FALSE]

\* s.chars().rev().collect::<String>()
rev(s) == [i \in 1..Len(s) |-> s[Len(s) - i + 1]]

None == [some |-> FALSE]
Some(v) == [some |-> TRUE, val |-> v]

RECURSIVE find_from(_, _, _, _)
find_from(s, ch, k, off) ==
    IF k > Len(s) THEN None
    ELSE IF s[k] = ch THEN Some(off)
    ELSE find_from(s, ch, k + 1, off + len_utf8(s[k]))

\* str::find(char): the byte offset of the first occurrence.
str_find(s, ch) == find_from(s, ch, 1, 0)

\* The chars of a &'static str of special characters.
chars_of(s) == {s[i] : i \in 1..Len(s)}

\* No call has returned yet.
NotYet == [tag |-> "NotYet"]

Ok(v) == [tag |-> "Ok", val |-> v]
Err(e) == [tag |-> "Err", err |-> e]
Panic == [tag |-> "Panic"]

(***************************************************************************)
(* src/src/user.rs: Name.                                                  *)
(***************************************************************************)
NAME_LEN_MIN == 3
NAME_LEN_MAX == 14

\* filter_chars, its predicate given as the set of chars it accepts.
filter_chars(input_, predicate) == SelectSeq(input_, LAMBDA ch : ch \in predicate)

\* String::as_str of the value a parser returned.
as_str(v) == v

\* Name::parse with the minimum compared by <= : a name of exactly
\* NAME_LEN_MIN chars is refused.
Name_parse_min_inclusive(name) ==
    LET sanitized == filter_chars(name, AsciiAlphanumeric)
        sanitized_len == byte_len(sanitized)
    IN  IF sanitized = <<>> THEN Err("Empty")
        ELSE IF sanitized_len <= NAME_LEN_MIN THEN Err("TooShort")
        ELSE IF sanitized_len > NAME_LEN_MAX
        THEN LET cut == slice(sanitized, 0, NAME_LEN_MAX)
             IN  IF cut.ok THEN Ok(cut.val) ELSE Panic
        ELSE Ok(sanitized)

Name_parse(name) ==
    LET sanitized == filter_chars(name, AsciiAlphanumeric)
        sanitized_len == byte_len(sanitized)
    IN  IF sanitized = <<>> THEN Err("Empty")
        ELSE IF sanitized_len < NAME_LEN_MIN THEN Err("TooShort")
        ELSE IF sanitized_len > NAME_LEN_MAX
        THEN LET cut == slice(sanitized, 0, NAME_LEN_MAX)
             IN  IF cut.ok THEN Ok(cut.val) ELSE Panic
        ELSE Ok(sanitized)

(***************************************************************************)
(* src/src/user.rs: Password.                                              *)
(***************************************************************************)
PASSWORD_LEN_MIN == 6
PASSWORD_LEN_MAX == 19

PASSWORD_ALLOWED_SPECIAL_CHARS == <<"-", "_">>

Password_parse(password_) ==
    LET sanitized == filter_chars(password_,
                        AsciiAlphanumeric \cup chars_of(PASSWORD_ALLOWED_SPECIAL_CHARS))
        sanitized_len == byte_len(sanitized)
    IN  IF sanitized = <<>> THEN Err("Empty")
        ELSE IF sanitized_len < PASSWORD_LEN_MIN THEN Err("TooShort")
        ELSE IF sanitized_len > PASSWORD_LEN_MAX
        THEN LET cut == slice(sanitized, 0, PASSWORD_LEN_MAX)
             IN  IF cut.ok THEN Ok(cut.val) ELSE Panic
        ELSE Ok(sanitized)

(***************************************************************************)
(* src/src/user.rs: Email.                                                 *)
(***************************************************************************)
EMAIL_LEN_MIN == 4
EMAIL_LEN_MAX == 49

EMAIL_ALLOWED_SPECIAL_CHARS == <<"-", "_", "@", ".">>

\* Email::find_last.  usize arithmetic: input.len() - i - 1 below zero is
\* the overflow panic, reported as tag "Panic".
find_last(input_, ch) ==
    LET found == str_find(rev(input_), ch)
    IN  IF ~found.some THEN [tag |-> "None"]
        ELSE IF byte_len(input_) - found.val - 1 < 0 THEN Panic
        ELSE [tag |-> "Some", val |-> byte_len(input_) - found.val - 1]

\* Lines 149-166 without the check of the first char.
Email_parse_len_no_first(sanitized) ==
    LET sanitized_len == byte_len(sanitized)
    IN  IF sanitized_len < EMAIL_LEN_MIN THEN Err("TooShort")
        ELSE IF sanitized_len > EMAIL_LEN_MAX
        THEN LET cut == slice(sanitized, 0, EMAIL_LEN_MAX)
             IN  IF cut.ok THEN Ok(cut.val) ELSE Panic
        ELSE Ok(sanitized)

\* Email::parse, lines 149-166: the first char, the length checks, the value.
\* An empty string at the expect of line 152 is its panic.
Email_parse_len(sanitized) ==
    LET sanitized_len == byte_len(sanitized)
    IN  IF Len(sanitized) = 0 THEN Panic
        ELSE IF sanitized[1] \notin AsciiAlphabetic THEN Err("Malformed")
        ELSE IF sanitized_len < EMAIL_LEN_MIN THEN Err("TooShort")
        ELSE IF sanitized_len > EMAIL_LEN_MAX
        THEN LET cut == slice(sanitized, 0, EMAIL_LEN_MAX)
             IN  IF cut.ok THEN Ok(cut.val) ELSE Panic
        ELSE Ok(sanitized)

\* Lines 133-147 without the check that the '.' is not the final char.
Email_parse_dot_no_final(sanitized, at) ==
    LET tail == slice(sanitized, at, byte_len(sanitized))
    IN  IF ~tail.ok THEN Panic
        ELSE
        LET found == find_last(tail.val, ".")
        IN  IF found.tag = "Panic" THEN Panic
            ELSE IF found.tag = "None" THEN Err("Malformed")
            ELSE
            LET local == slice(sanitized, 0, at)
            IN  IF ~local.ok THEN Panic
                ELSE IF \A i \in 1..Len(local.val) : local.val[i] \in AsciiDigit
                THEN Err("Malformed")
                ELSE Email_parse_len(sanitized)

\* Email::parse, lines 133-147: the last '.' from the last '@' on, and the
\* local part.
Email_parse_dot(sanitized, at) ==
    LET tail == slice(sanitized, at, byte_len(sanitized))
    IN  IF ~tail.ok THEN Panic
        ELSE
        LET found == find_last(tail.val, ".")
        IN  IF found.tag = "Panic" THEN Panic
            ELSE IF found.tag = "None" THEN Err("Malformed")
            ELSE
            LET dot == found.val + at
                sanitized_len == byte_len(sanitized)
                local == slice(sanitized, 0, at)
            IN  IF dot + 1 = sanitized_len THEN Err("Malformed")
                ELSE IF ~local.ok THEN Panic
                ELSE IF \A i \in 1..Len(local.val) : local.val[i] \in AsciiDigit
                THEN Err("Malformed")
                ELSE Email_parse_len(sanitized)

\* Email::parse, lines 110-131, and on through the two stages above.
Email_parse(email) ==
    LET sanitized == filter_chars(email,
                        AsciiAlphanumeric \cup chars_of(EMAIL_ALLOWED_SPECIAL_CHARS))
    IN  IF sanitized = <<>> THEN Err("Empty")
        ELSE
        LET found == find_last(sanitized, "@")
        IN  IF found.tag = "Panic" THEN Panic
            ELSE IF found.tag = "None" THEN Err("Malformed")
            ELSE IF found.val = 0 THEN Err("Malformed")
            ELSE Email_parse_dot(sanitized, found.val)

(***************************************************************************)
(* The parsers' callers: a raw input is parsed, and an accepted value is   *)
(* parsed again.                                                           *)
(***************************************************************************)
Fields == {"Name", "Password", "Email"}

LenMin(f) == CASE f = "Name" -> NAME_LEN_MIN
               [] f = "Password" -> PASSWORD_LEN_MIN
               [] f = "Email" -> EMAIL_LEN_MIN

LenMax(f) == CASE f = "Name" -> NAME_LEN_MAX
               [] f = "Password" -> PASSWORD_LEN_MAX
               [] f = "Email" -> EMAIL_LEN_MAX

\* The chars raw inputs are made of: a letter, a digit, the two special chars
\* of Password, the two structural chars of Email, and a non-ASCII letter no
\* field allows.
Alphabet == {"a", "1", "-", "_", "@", ".", "U+00E9"}

Strs(n) == UNION {[1..k -> Alphabet] : k \in 0..n}

\* The runs inserted to reach a field's limits.
FillChars == {"a", "U+00E9"}
FillLens(f) == {LenMin(f) - 1, LenMax(f) - 1, LenMax(f), LenMax(f) + 1}
Fill(c, n) == [i \in 1..n |-> c]

\* The raw inputs of test_name_parsing, test_password_parsing and
\* test_email_parsing.
ParserTestInputs ==
    {<<"-", "/", "&", "#">>,
     <<"a", "^", "@", "*", "(">>,
     <<"b", "a", "b", "y", "g", "r", "o", "n", "k", "?", "?", "?">>,
     <<"/", "#", "#", ">", "<", "&", "#">>,
     <<"a", "^", "@", "*", "(", "-">>,
     <<"_", "d", "e", "e", "z", "-", "n", "u", "t", "s", "?", "?", "?">>,
     <<"+", "%", "U+00F7", ">", ")">>,
     <<"f", "o", "o", "@", ".">>,
     <<"f", "o", "o", "@", ".", "@">>,
     <<"1", "_", "@", ".", "d">>,
     <<"a", "_", "@", ".", "d">>}

Inputs(f) ==
    ParserTestInputs \cup Strs(MaxLen) \cup
    {SubSeq(t, 1, k) \o Fill(c, n) \o SubSeq(t, k + 1, Len(t)) :
        <<t, k, c, n>> \in {x \in Strs(MaxTail) \X (0..MaxTail) \X FillChars \X FillLens(f) :
                              x[2] <= Len(x[1])}}

parse(f, s) == CASE f = "Name" -> Name_parse(s)
                 [] f = "Password" -> Password_parse(s)
                 [] f = "Email" -> Email_parse(s)


(***************************************************************************)
(* src/src/user.rs: SocialMediaHandles.                                    *)
(***************************************************************************)
HANDLE_ALLOWED_SPECIAL_CHARS == <<"-", "_", ",", "'", " ">>

sanitize_social_media_handle(handle) ==
    LET sanitized == filter_chars(handle,
                        AsciiAlphanumeric \cup chars_of(HANDLE_ALLOWED_SPECIAL_CHARS))
    IN  IF sanitized = <<>> THEN None ELSE Some(sanitized)

SocialMediaHandles_new(youtube_, twitter_, twitch_) ==
    [youtube |-> sanitize_social_media_handle(youtube_),
     twitter |-> sanitize_social_media_handle(twitter_),
     twitch  |-> sanitize_social_media_handle(twitch_)]

\* The getters return a clone of the field.
youtube(self) == self.youtube
twitter(self) == self.twitter
twitch(self) == self.twitch

\* The setters: the value of *self when the call returns.
set_youtube(self, youtube_) ==
    [self EXCEPT !.youtube = sanitize_social_media_handle(youtube_)]

\* set_twitter storing into the field of set_twitch.
set_twitter_into_twitch(self, twitter_) ==
    [self EXCEPT !.twitch = sanitize_social_media_handle(twitter_)]

set_twitter(self, twitter_) ==
    [self EXCEPT !.twitter = sanitize_social_media_handle(twitter_)]

set_twitch(self, twitch_) ==
    [self EXCEPT !.twitch = sanitize_social_media_handle(twitch_)]

(***************************************************************************)
(* src/src/gjp2.rs.  The Sha1 accumulator is the byte string it has        *)
(* absorbed.  Byte strings carry their kind: "text" for the bytes of a     *)
(* &str and "sha1" for the 20 raw bytes of a digest, which is taken to be  *)
(* collision-free and so stands for its preimage.  A valid Password has at *)
(* most 19 bytes, so none of them is the byte string of a digest.          *)
(***************************************************************************)
SUFFIX == <<"m", "I", "2", "9", "f", "m", "A", "n", "x", "g", "T", "s">>

\* bcrypt::DEFAULT_COST, by name.
DEFAULT_COST == "DEFAULT_COST"

\* AsRef<[u8]> of a &str.
text_bytes(text) == [kind |-> "text", data |-> text]

\* Sha1::new()
Sha1_new == <<>>
\* Digest::update
Sha1_update(d, data) == d \o data
\* Digest::finalize
Sha1_finalize(d) == [kind |-> "sha1", data |-> d]
\* Digest::reset
Sha1_reset(d) == Sha1_new

\* The encoded hash bcrypt computes for a password, a cost and a salt: it
\* names its cost and salt, and its hash part is injective in the password.
bcrypt_encode(pw, cost, salt) == [cost |-> cost, salt |-> salt, hash |-> pw]

\* bcrypt::hash, whose salt is drawn at random, and which fails when the
\* draw does (outcome 0).
bcrypt_hash(pw, cost, outcome) ==
    IF outcome = 0 THEN Err("BcryptError") ELSE Ok(bcrypt_encode(pw, cost, outcome))

\* bcrypt::verify: hashes the password with the cost and salt of the
\* encoded hash and compares.
bcrypt_verify(pw, hash) == Ok(bcrypt_encode(pw, hash.cost, hash.salt) = hash)

\* Gjp2::new and Gjp2::as_str
Gjp2_new(gjp2) == gjp2
Gjp2_as_str(gjp2) == gjp2

\* verify_gjp2 returning whether bcrypt::verify returned at all, not what.
verify_gjp2_is_ok(text, gjp2) ==
    Ok(bcrypt_verify(text_bytes(text), Gjp2_as_str(gjp2)).tag = "Ok")

\* verify_gjp2; the ? passes an Err on.
verify_gjp2(text, gjp2) == bcrypt_verify(text_bytes(text), Gjp2_as_str(gjp2))

\* Gjp2Generator::new
Gjp2Generator_new(digest_) == digest_

\* generate_gjp2: the accumulator, the digest handed to bcrypt and the
\* value returned, for the draw of bcrypt::hash.
generate_gjp2(self, password_, outcome) ==
    LET updated == Sha1_update(self, as_str(password_) \o SUFFIX)
        hash == Sha1_finalize(updated)
        bcrypt_result == bcrypt_hash(hash, DEFAULT_COST, outcome)
    IN  [digest |-> Sha1_reset(updated),
         sha1_hash |-> hash,
         ret |-> IF bcrypt_result.tag = "Ok"
                 THEN Ok(Gjp2_new(bcrypt_result.val))
                 ELSE bcrypt_result]

(***************************************************************************)
(* The parsers' callers: a raw input is parsed, and an accepted value is   *)
(* parsed again.                                                           *)
(***************************************************************************)
NoHandles == [youtube |-> None, twitter |-> None, twitch |-> None]
NoRaw == [youtube |-> <<>>, twitter |-> <<>>, twitch |-> <<>>]

IdleParse ==
    field = "none" /\ input = <<>> /\ pc = "idle" /\ result = NotYet /\ reparsed = NotYet

IdleHandles ==
    handles = NoHandles /\ raw = NoRaw /\ lastOp = "none" /\ ret = None

IdleGjp2 ==
    /\ digest = Sha1_new /\ calls = 0 /\ password = <<>> /\ sha1_hash = NotYet
    /\ generated = NotYet /\ candidate = <<>> /\ verified = NotYet

InitParse ==
    /\ field \in Fields
    /\ input \in Inputs(field)
    /\ pc = "start"
    /\ result = NotYet
    /\ reparsed = NotYet
    /\ IdleHandles
    /\ IdleGjp2

Parse ==
    /\ pc = "start"
    /\ result' = parse(field, input)
    /\ pc' = "parsed"
    /\ UNCHANGED <<field, input, reparsed, handleVars, gjp2Vars>>

Reparse ==
    /\ pc = "parsed"
    /\ result.tag = "Ok"
    /\ reparsed' = parse(field, as_str(result.val))
    /\ pc' = "reparsed"
    /\ UNCHANGED <<field, input, result, handleVars, gjp2Vars>>

NextParse == Parse \/ Reparse

SpecParse == InitParse /\ [][NextParse]_vars

(***************************************************************************)
(* A SocialMediaHandles value and its callers.                             *)
(***************************************************************************)
HandleAlphabet == {"x", " ", "~"}

\* The raw handles of test_social_media_handles; "U+0060" is the grave
\* accent, an ASCII char of one byte.
HandleTestInputs ==
    {<<"U+0060", "U+0060", "U+0060">>, <<"-", "_", ",", "'", " ">>,
     <<"~", "x", "d">>, <<"x", "d">>, <<>>}

HandleInputs == HandleTestInputs \cup UNION {[1..k -> HandleAlphabet] : k \in 0..MaxHandleLen}

InitHandles ==
    /\ \E yt \in HandleInputs, tw \in HandleInputs, tt \in HandleInputs :
          /\ handles = SocialMediaHandles_new(yt, tw, tt)
          /\ raw = [youtube |-> yt, twitter |-> tw, twitch |-> tt]
    /\ lastOp = "new"
    /\ ret = handles
    /\ IdleParse
    /\ IdleGjp2

GetYoutube ==
    /\ ret' = youtube(handles)
    /\ lastOp' = "youtube"
    /\ UNCHANGED <<handles, raw, parseVars, gjp2Vars>>

GetTwitter ==
    /\ ret' = twitter(handles)
    /\ lastOp' = "twitter"
    /\ UNCHANGED <<handles, raw, parseVars, gjp2Vars>>

GetTwitch ==
    /\ ret' = twitch(handles)
    /\ lastOp' = "twitch"
    /\ UNCHANGED <<handles, raw, parseVars, gjp2Vars>>

SetYoutube ==
    \E s \in HandleInputs :
        /\ handles' = set_youtube(handles, s)
        /\ raw' = [raw EXCEPT !.youtube = s]
        /\ lastOp' = "set_youtube"
        /\ ret' = handles'
        /\ UNCHANGED <<parseVars, gjp2Vars>>

SetTwitter ==
    \E s \in HandleInputs :
        /\ handles' = set_twitter(handles, s)
        /\ raw' = [raw EXCEPT !.twitter = s]
        /\ lastOp' = "set_twitter"
        /\ ret' = handles'
        /\ UNCHANGED <<parseVars, gjp2Vars>>

SetTwitch ==
    \E s \in HandleInputs :
        /\ handles' = set_twitch(handles, s)
        /\ raw' = [raw EXCEPT !.twitch = s]
        /\ lastOp' = "set_twitch"
        /\ ret' = handles'
        /\ UNCHANGED <<parseVars, gjp2Vars>>

NextHandles ==
    GetYoutube \/ GetTwitter \/ GetTwitch \/ SetYoutube \/ SetTwitter \/ SetTwitch

SpecHandles == InitHandles /\ [][NextHandles]_vars

(***************************************************************************)
(* A Gjp2Generator and its callers.                                        *)
(***************************************************************************)
\* Valid passwords: what Password::parse accepts of a run of letters
\* followed by a few free chars.
PwAlphabet == {"a", "b", "_", "#"}

PwInputs ==
    {Fill("a", n) \o t : n \in {PASSWORD_LEN_MIN - 1, PASSWORD_LEN_MAX - 1},
                         t \in UNION {[1..k -> PwAlphabet] : k \in 0..MaxPwTail}}

Passwords ==
    {r.val : r \in {x \in {Password_parse(s) : s \in PwInputs} : x.tag = "Ok"}}

\* The Sha1 values a generator is constructed over: a new one, and one that
\* has absorbed data.
Sha1Values == {Sha1_new, Sha1_update(Sha1_new, <<"x">>)}

InitGjp2 ==
    /\ \E d \in Sha1Values : digest = Gjp2Generator_new(d)
    /\ calls = 0
    /\ password = <<>>
    /\ sha1_hash = NotYet
    /\ generated = NotYet
    /\ candidate = <<>>
    /\ verified = NotYet
    /\ IdleParse
    /\ IdleHandles

Generate ==
    /\ calls < MaxCalls
    /\ \E p \in Passwords, outcome \in 0..NumSalts :
          LET r == generate_gjp2(digest, p, outcome)
          IN  /\ digest' = r.digest
              /\ sha1_hash' = r.sha1_hash
              /\ generated' = r.ret
              /\ password' = p
    /\ calls' = calls + 1
    /\ candidate' = <<>>
    /\ verified' = NotYet
    /\ UNCHANGED <<parseVars, handleVars>>

Verify ==
    /\ generated.tag = "Ok"
    /\ \E q \in Passwords :
          /\ candidate' = q
          /\ verified' = verify_gjp2(as_str(q), generated.val)
    /\ UNCHANGED <<digest, calls, password, sha1_hash, generated, parseVars, handleVars>>

NextGjp2 == Generate \/ Verify

SpecGjp2 == InitGjp2 /\ [][NextGjp2]_vars

(***************************************************************************)
(* The claims.                                                             *)
(***************************************************************************)
\* C1: a password verifies against the verifier generated from it:
\* verify_gjp2(p.as_str(), g) = Ok(true) for g returned by generate_gjp2(p).
C1_RoundTrip ==
    (verified.tag # "NotYet" /\ candidate = password)
        => (verified.tag = "Ok" /\ verified.val = TRUE)

\* C2: a valid password other than the one the verifier was generated from
\* is rejected: verify_gjp2 returns Ok(false).
C2_WrongPasswordRejected ==
    (verified.tag # "NotYet" /\ candidate # password)
        => (verified.tag = "Ok" /\ verified.val = FALSE)

C2_Witness ==
    /\ generated.tag = "Ok"
    /\ verified.tag = "Ok"
    /\ candidate # password
    /\ calls > 1

\* C3: in every generate_gjp2 call on a generator, the digest handed to
\* bcrypt is SHA1(p || SUFFIX) of that call's password alone, and the
\* accumulator is in its initial state when the call has returned.
C3_GeneratorReuse ==
    calls > 0 =>
        /\ sha1_hash = [kind |-> "sha1", data |-> password \o SUFFIX]
        /\ digest = <<>>

\* C4: parsing an accepted value again accepts it, with the same string.
C4_FilterIdempotence ==
    pc = "reparsed" =>
        (reparsed.tag = "Ok" /\ as_str(reparsed.val) = as_str(result.val))

C5_LastAt(v) == CHOOSE i \in 1..Len(v) : v[i] = "@" /\ \A j \in (i + 1)..Len(v) : v[j] # "@"

\* C5: every accepted Email holds only ASCII alphanumerics and - _ @ . ,
\* starts with a letter, has an '@' and a '.' at or after its last '@' that
\* is not its final char, a local part that is not all digits, and has
\* 4 to 49 chars.
C5_EmailValueInvariant ==
    (field = "Email" /\ result.tag = "Ok") =>
        LET v == result.val
        IN  /\ \A i \in 1..Len(v) : v[i] \in AsciiAlphanumeric \cup {"-", "_", "@", "."}
            /\ Len(v) >= 4 /\ Len(v) <= 49
            /\ v[1] \in AsciiAlphabetic
            /\ \E i \in 1..Len(v) : v[i] = "@"
            /\ LET at == C5_LastAt(v)
               IN  /\ \E j \in at..Len(v) : v[j] = "."
                   /\ \A j \in at..Len(v) : v[j] = "." => \E k \in j..Len(v) : k < Len(v) /\ v[k] = "."
                   /\ \E j \in 1..(at - 1) : v[j] \notin AsciiDigit

\* The filtered form of a raw email, as the claims describe it.
C6_Filtered(s) ==
    SelectSeq(s, LAMBDA ch : ch \in AsciiAlphabetic \cup AsciiDigit \cup {"-", "_", "@", "."})

\* The last position (from 1) of ch in f, 0 when f has none.
C6_Last(f, ch) ==
    IF \E i \in 1..Len(f) : f[i] = ch
    THEN CHOOSE i \in 1..Len(f) : f[i] = ch /\ \A j \in (i + 1)..Len(f) : f[j] # ch
    ELSE 0

\* The result the decision order of C6 gives a filtered email.
C6_Decision(f) ==
    LET at == C6_Last(f, "@")
        dot == C6_Last(f, ".")
    IN  IF f = <<>> THEN Err("Empty")
        ELSE IF at = 0 THEN Err("Malformed")
        ELSE IF at = 1 THEN Err("Malformed")
        ELSE IF dot < at THEN Err("Malformed")
        ELSE IF dot = Len(f) THEN Err("Malformed")
        ELSE IF \A i \in 1..(at - 1) : f[i] \in AsciiDigit THEN Err("Malformed")
        ELSE IF f[1] \notin AsciiAlphabetic THEN Err("Malformed")
        ELSE IF Len(f) < 4 THEN Err("TooShort")
        ELSE IF Len(f) > 49 THEN Ok(SubSeq(f, 1, 49))
        ELSE Ok(f)

\* C6: Email::parse returns what the first failing check decides, in the
\* order empty, no '@', '@' first, no '.' from the last '@' on, '.' final,
\* local part all digits, first char not a letter, too short, truncated,
\* verbatim.
C6_EmailDecisionOrder ==
    (field = "Email" /\ pc # "start") => result = C6_Decision(C6_Filtered(input))

\* "1_@.d": a local part with a leading digit that is not all digits is
\* refused as Malformed.
C6_Witness ==
    /\ field = "Email"
    /\ pc = "parsed"
    /\ input = <<"1", "_", "@", ".", "d">>
    /\ result = Err("Malformed")

C7_Class(f) ==
    IF f = "Name" THEN AsciiAlphabetic \cup AsciiDigit
    ELSE AsciiAlphabetic \cup AsciiDigit \cup {"-", "_"}

C7_Min(f) == IF f = "Name" THEN 3 ELSE 6
C7_Max(f) == IF f = "Name" THEN 14 ELSE 19

\* The result the discipline of C7 gives a filtered string.
C7_Decision(f, min, max) ==
    IF f = <<>> THEN Err("Empty")
    ELSE IF Len(f) < min THEN Err("TooShort")
    ELSE IF Len(f) > max THEN Ok(SubSeq(f, 1, max))
    ELSE Ok(f)

\* C7: Name::parse and Password::parse return Empty exactly for an empty
\* filtered string, TooShort exactly for one shorter than the minimum, the
\* first max chars for one longer than the maximum, and the filtered string
\* itself otherwise; an accepted value has min to max chars, all allowed.
C7_EmptyShortTruncate ==
    (field \in {"Name", "Password"} /\ pc # "start") =>
        LET f == SelectSeq(input, LAMBDA ch : ch \in C7_Class(field))
        IN  /\ result = C7_Decision(f, C7_Min(field), C7_Max(field))
            /\ result.tag = "Ok" =>
                   /\ Len(result.val) >= C7_Min(field)
                   /\ Len(result.val) <= C7_Max(field)
                   /\ \A i \in 1..Len(result.val) : result.val[i] \in C7_Class(field)

\* A password whose filtered form is longer than 19 chars, cut to 19, from
\* an input that also held chars the filter drops.
C7_Witness ==
    /\ field = "Password"
    /\ pc = "parsed"
    /\ result.tag = "Ok"
    /\ Len(result.val) = 19
    /\ Len(SelectSeq(input, LAMBDA ch : ch \in C7_Class("Password"))) > 19
    /\ \E i \in 1..Len(input) : input[i] \notin C7_Class("Password")

C8_Allowed == AsciiAlphabetic \cup AsciiDigit \cup {"-", "_", ",", "'", " "}

C8_Sanitized(s) ==
    LET kept == SelectSeq(s, LAMBDA ch : ch \in C8_Allowed)
    IN  IF kept = <<>> THEN None ELSE Some(kept)

\* C8: each handle is the sanitization of the raw string most recently
\* supplied for it by new or by its own setter, a getter returns it, and a
\* setter returns the aggregate.
C8_LastWrite ==
    /\ \A f \in {"youtube", "twitter", "twitch"} : handles[f] = C8_Sanitized(raw[f])
    /\ lastOp \in {"youtube", "twitter", "twitch"} => ret = C8_Sanitized(raw[lastOp])
    /\ lastOp \in {"new", "set_youtube", "set_twitter", "set_twitch"} => ret = handles

\* twitch() returns "xd" for the raw "~xd" while youtube, given three
\* grave accents, is absent and twitter holds all five special chars.
C8_Witness ==
    /\ lastOp = "twitch"
    /\ raw.twitch = <<"~", "x", "d">>
    /\ ret = Some(<<"x", "d">>)
    /\ raw.youtube = <<"U+0060", "U+0060", "U+0060">>
    /\ handles.youtube = None
    /\ handles.twitter = Some(<<"-", "_", ",", "'", " ">>)

\* C9: Email::parse never returns TooShort.
C9_EmailNeverTooShort ==
    (field = "Email" /\ pc # "start") => ~(result.tag = "Err" /\ result.err = "TooShort")

\* An email of exactly 4 chars passes the length check.
C9_Witness ==
    /\ field = "Email"
    /\ pc = "parsed"
    /\ result.tag = "Ok"
    /\ Len(result.val) = 4

\* C10: no parser panics, on the raw input or on an accepted value, and
\* Email::find_last returns the byte offset of the last occurrence.
C10_NoPanic ==
    /\ pc # "start" => result.tag # "Panic"
    /\ pc = "reparsed" => reparsed.tag # "Panic"
    /\ field = "Email" =>
          LET f == C6_Filtered(input)
          IN  \A ch \in {"@", "."} :
                 find_last(f, ch) =
                    IF C6_Last(f, ch) = 0 THEN [tag |-> "None"]
                    ELSE [tag |-> "Some", val |-> C6_Last(f, ch) - 1]

\* An email whose filtered form is longer than 49 bytes is cut to 49: the
\* slices at.., 0..at and 0..49 were all taken.
C10_Witness ==
    /\ field = "Email"
    /\ pc = "reparsed"
    /\ Len(C6_Filtered(input)) > 49
    /\ result.tag = "Ok"
    /\ Len(result.val) = 49

=============================================================================
